---- MODULE Spec2Model ----
(***************************************************************************)
(* Free-mode turn engine of the text RPG backend: the effect resolver      *)
(* (app/utils/combat.py), the cheats (app/utils/cheats.py), the narrative  *)
(* oracle adapter (app/services/llm_service.py) and the turn orchestrator  *)
(* process_free_action (app/services/gameplay_service.py).                 *)
(*                                                                         *)
(* Python's None is the empty tuple and a present value x is <<x>>, so an  *)
(* Optional field is a sequence of length 0 or 1.  Strings the code        *)
(* inspects character by character (the action text) are tuples of         *)
(* one-character strings.                                                  *)
(***************************************************************************)
EXTENDS Integers, Sequences, FiniteSets, TLC

VARIABLES
    character,  \* the Character document: current_health, max_health, attributes
    turns,      \* campaign.turns, each id resolved to its stored Turn document
    last,       \* the last request served by campaign_action and what it did
    context,    \* what campaign_action's lookups find for the request's campaign
    level,      \* standard flow: the Level document of the current level
    calls,      \* concurrent calls: what each call of process_free_action holds
    collection, \* concurrent calls: the Turn documents inserted, in order
    rin,        \* resolver harness: the arguments handed to resolve_effect
    rout        \* resolver harness: what resolve_effect returned for them

vars == <<character, turns, last, context, level, calls, collection, rin, rout>>

\* ------------------------------------------------------------------ Optional
None == <<>>
Some(x) == <<x>>
IsNone(o) == Len(o) = 0
Get(o) == o[1]

Max(a, b) == IF a >= b THEN a ELSE b
Min(a, b) == IF a <= b THEN a ELSE b

\* int(n / d) for d > 0: Python's int() truncates toward zero.
Trunc(n, d) == IF n >= 0 THEN n \div d ELSE -((-n) \div d)

\* ------------------------------------------------------------------ models.py
DAMAGE == "damage"
HEAL == "heal"
EffectType == {DAMAGE, HEAL}

AttributeNames == {"strength", "dexterity", "intelligence", "charisma"}

Effect(type, target, value) == [type |-> type, target |-> target, value |-> value]

CombatSide(health, max_health, attributes, roll) ==
    [health |-> health, max_health |-> max_health, attributes |-> attributes, roll |-> roll]

CombatStateModel(player, enemy, chosen_attribute, player_total, enemy_total) ==
    [player |-> player, enemy |-> enemy, chosen_attribute |-> chosen_attribute,
     player_total |-> player_total, enemy_total |-> enemy_total]

EnemyDefeatedReward(gainedExperience, loot) ==
    [gainedExperience |-> gainedExperience, loot |-> loot]

EmptyReward == EnemyDefeatedReward(None, <<>>)

\* ------------------------------------------------------------------ combat.py
\* `side.max_health or side.health`: None and 0 are both falsy.
max_or_health(side) ==
    IF IsNone(side.max_health) \/ Get(side.max_health) = 0
    THEN side.health
    ELSE Get(side.max_health)

\* value = max(1, int(avg_health * 0.15)) with avg_health = (a + d) / 2.
\* avg * 0.15 = 3 * (a + d) / 40; the float product truncates to the same
\* integer for every sum in -400..2000.
effect_value(attacker, defender) ==
    Max(1, Trunc(3 * (max_or_health(attacker) + max_or_health(defender)), 40))

\* Variant: a tie counts as a win of the player.
resolve_effect_tie_hits(effect_type, attacker, defender, player_total, enemy_total) ==
    LET value == effect_value(attacker, defender)
    IN  IF effect_type = DAMAGE
        THEN IF player_total >= enemy_total THEN Effect(DAMAGE, "enemy", value)
             ELSE Effect(DAMAGE, "self", value)
        ELSE IF player_total >= enemy_total THEN Effect(HEAL, "self", value)
             ELSE Effect(DAMAGE, "self", value)

\* Variant: a heal that backfires costs 1.
resolve_effect_weak_backfire(effect_type, attacker, defender, player_total, enemy_total) ==
    LET value == effect_value(attacker, defender)
    IN  IF effect_type = DAMAGE
        THEN IF player_total > enemy_total THEN Effect(DAMAGE, "enemy", value)
             ELSE IF player_total < enemy_total THEN Effect(DAMAGE, "self", value)
             ELSE Effect(DAMAGE, "none", 0)
        ELSE IF player_total > enemy_total THEN Effect(HEAL, "self", value)
             ELSE IF player_total < enemy_total THEN Effect(DAMAGE, "self", 1)
             ELSE Effect(HEAL, "none", 0)

\* Variant: a damage intent hits the enemy whoever is ahead.
resolve_effect_damage_hits_enemy(effect_type, attacker, defender, player_total, enemy_total) ==
    LET value == effect_value(attacker, defender)
    IN  IF effect_type = DAMAGE
        THEN IF player_total = enemy_total THEN Effect(DAMAGE, "none", 0)
             ELSE Effect(DAMAGE, "enemy", value)
        ELSE IF player_total > enemy_total THEN Effect(HEAL, "self", value)
             ELSE IF player_total < enemy_total THEN Effect(DAMAGE, "self", value)
             ELSE Effect(HEAL, "none", 0)

\* Variant: a heal that backfires lands on the enemy.
resolve_effect_backfire_hits_enemy(effect_type, attacker, defender, player_total, enemy_total) ==
    LET value == effect_value(attacker, defender)
    IN  IF effect_type = DAMAGE
        THEN IF player_total > enemy_total THEN Effect(DAMAGE, "enemy", value)
             ELSE IF player_total < enemy_total THEN Effect(DAMAGE, "self", value)
             ELSE Effect(DAMAGE, "none", 0)
        ELSE IF player_total > enemy_total THEN Effect(HEAL, "self", value)
             ELSE IF player_total < enemy_total THEN Effect(DAMAGE, "enemy", value)
             ELSE Effect(HEAL, "none", 0)

resolve_effect(effect_type, attacker, defender, player_total, enemy_total) ==
    LET value == effect_value(attacker, defender)
    IN  IF effect_type = DAMAGE
        THEN IF player_total > enemy_total THEN Effect(DAMAGE, "enemy", value)
             ELSE IF player_total < enemy_total THEN Effect(DAMAGE, "self", value)
             ELSE Effect(DAMAGE, "none", 0)
        ELSE IF effect_type = HEAL
        THEN IF player_total > enemy_total THEN Effect(HEAL, "self", value)
             ELSE IF player_total < enemy_total THEN Effect(DAMAGE, "self", value)
             ELSE Effect(HEAL, "none", 0)
        ELSE Effect(effect_type, "none", 0)

\* ------------------------------------------------------------------ action text
Whitespace == {" ", "\t", "\n"}

\* str.lower() on the letters the action texts use.
char_lower(c) ==
    CASE c = "A" -> "a" [] c = "C" -> "c" [] c = "D" -> "d" [] c = "E" -> "e"
      [] c = "F" -> "f" [] c = "I" -> "i" [] c = "K" -> "k" [] c = "L" -> "l"
      [] c = "M" -> "m" [] c = "N" -> "n" [] c = "R" -> "r" [] c = "T" -> "t"
      [] c = "U" -> "u" [] c = "Y" -> "y" [] OTHER -> c

str_lower(s) == [i \in 1..Len(s) |-> char_lower(s[i])]

RECURSIVE str_lstrip(_)
str_lstrip(s) ==
    IF s # <<>> /\ Head(s) \in Whitespace THEN str_lstrip(Tail(s)) ELSE s

RECURSIVE str_rstrip(_)
str_rstrip(s) ==
    IF s # <<>> /\ s[Len(s)] \in Whitespace
    THEN str_rstrip(SubSeq(s, 1, Len(s) - 1))
    ELSE s

str_strip(s) == str_rstrip(str_lstrip(s))

\* action.strip().lower()
normalize_action(action) == str_lower(str_strip(action))

REDUCEMYLIFE == <<"r", "e", "d", "u", "c", "e", "m", "y", "l", "i", "f", "e">>
REDUCEENEMYLIFE ==
    <<"r", "e", "d", "u", "c", "e", "e", "n", "e", "m", "y", "l", "i", "f", "e">>

\* ------------------------------------------------------------------ cheats.py
\* The documents as stored after the player cheat.
Stored(ch, ts) == [character |-> ch, turns |-> ts]

\* Variant: the guard on active_combat is missing.
cheat_set_player_health_to_one_unguarded(campaign_turns, ch) ==
    IF campaign_turns = <<>>
    THEN Stored(ch, campaign_turns)
    ELSE LET n == Len(campaign_turns)
             last_turn == campaign_turns[n]
             cs == last_turn.combat_state
             cs1 == IF IsNone(cs) THEN cs ELSE Some([Get(cs) EXCEPT !.player.health = 1])
             patched == [last_turn EXCEPT !.combat_state = cs1, !.character_health = 1]
         IN  Stored([ch EXCEPT !.current_health = 1],
                    [campaign_turns EXCEPT ![n] = patched])

\* Variant: the snapshot of the last turn is not patched.
cheat_set_player_health_to_one_flat_only(campaign_turns, ch) ==
    IF campaign_turns = <<>>
    THEN Stored(ch, campaign_turns)
    ELSE LET n == Len(campaign_turns)
             last_turn == campaign_turns[n]
         IN  IF ~last_turn.active_combat
             THEN Stored(ch, campaign_turns)
             ELSE Stored([ch EXCEPT !.current_health = 1],
                         [campaign_turns EXCEPT ![n].character_health = 1])

cheat_set_player_health_to_one(campaign_turns, ch) ==
    IF campaign_turns = <<>>
    THEN Stored(ch, campaign_turns)
    ELSE LET n == Len(campaign_turns)
             last_turn == campaign_turns[n]
         IN  IF ~last_turn.active_combat
             THEN Stored(ch, campaign_turns)
             ELSE LET cs == last_turn.combat_state
                      cs1 == IF IsNone(cs) THEN cs
                             ELSE Some([Get(cs) EXCEPT !.player.health = 1])
                      patched == [last_turn EXCEPT !.combat_state = cs1,
                                                   !.character_health = 1]
                  IN  Stored([ch EXCEPT !.current_health = 1],
                             [campaign_turns EXCEPT ![n] = patched])

cheat_set_enemy_health_to_one(campaign_turns) ==
    IF campaign_turns = <<>>
    THEN campaign_turns
    ELSE LET n == Len(campaign_turns)
             last_turn == campaign_turns[n]
         IN  IF ~last_turn.active_combat
             THEN campaign_turns
             ELSE LET cs == last_turn.combat_state
                      cs1 == IF IsNone(cs) THEN cs
                             ELSE Some([Get(cs) EXCEPT !.enemy.health = 1])
                      patched == [last_turn EXCEPT !.combat_state = cs1,
                                                   !.enemy_health = 1]
                  IN  [campaign_turns EXCEPT ![n] = patched]

\* ------------------------------------------------------------------ llm_service.py
LLMFreeOutcome(narrative, effects, enemy_health, combat_state, reward, active_combat, suggested_actions) ==
    [narrative |-> narrative, effects |-> effects, enemy_health |-> enemy_health,
     combat_state |-> combat_state, enemy_defeated_reward |-> reward,
     active_combat |-> active_combat, suggested_actions |-> suggested_actions]

FALLBACK_NARRATIVE == "You act, but nothing conclusive happens."
PLAYER_KO_NARRATIVE ==
    "You collapse into darkness, but fate spares your life. Someone finds you before it is too late."
ENEMY_KO_NARRATIVE == "The enemy crumples to the ground, defeated once and for all."
KO_DEFAULT_REWARD == EnemyDefeatedReward(Some(10), <<"Gold Coin">>)

\* Variant: a reply without active combat keeps its combat_state and enemy_health.
generate_free_narrative_keeps_state(reply) ==
    IF IsNone(reply)
    THEN LLMFreeOutcome(FALLBACK_NARRATIVE, <<>>, None, None, EmptyReward, FALSE, <<>>)
    ELSE LET out == Get(reply)
         IN  LLMFreeOutcome(out.narrative, out.effects, out.enemy_health, out.combat_state,
                            IF IsNone(out.enemy_defeated_reward) THEN EmptyReward
                            ELSE Get(out.enemy_defeated_reward),
                            IF IsNone(out.active_combat) THEN FALSE
                            ELSE Get(out.active_combat),
                            IF IsNone(out.suggested_actions) THEN <<>>
                            ELSE Get(out.suggested_actions))

\* Variant: the fallback carries the reward of the enemy-defeated fallback.
generate_free_narrative_fallback_reward(reply) ==
    IF IsNone(reply)
    THEN LLMFreeOutcome(FALLBACK_NARRATIVE, <<>>, None, None, KO_DEFAULT_REWARD, FALSE, <<>>)
    ELSE LET out == Get(reply)
             active == IF IsNone(out.active_combat) THEN FALSE
                       ELSE Get(out.active_combat)
         IN  LLMFreeOutcome(out.narrative, out.effects,
                            IF active THEN out.enemy_health ELSE None,
                            IF active THEN out.combat_state ELSE None,
                            IF IsNone(out.enemy_defeated_reward) THEN EmptyReward
                            ELSE Get(out.enemy_defeated_reward),
                            active,
                            IF IsNone(out.suggested_actions) THEN <<>>
                            ELSE Get(out.suggested_actions))

\* A reply of the oracle is None when the call raised or its text did not parse
\* into an LLMFreeOutcome, and Some(parsed outcome) otherwise.  In a parsed
\* outcome enemy_defeated_reward, active_combat and suggested_actions are
\* Optional: the adapters test each of them against None.
generate_free_narrative(reply) ==
    IF IsNone(reply)
    THEN LLMFreeOutcome(FALLBACK_NARRATIVE, <<>>, None, None, EmptyReward, FALSE, <<>>)
    ELSE LET out == Get(reply)
             reward == IF IsNone(out.enemy_defeated_reward) THEN EmptyReward
                       ELSE Get(out.enemy_defeated_reward)
             active == IF IsNone(out.active_combat) THEN FALSE
                       ELSE Get(out.active_combat)
         IN  LLMFreeOutcome(out.narrative, out.effects,
                            IF active THEN out.enemy_health ELSE None,
                            IF active THEN out.combat_state ELSE None,
                            reward, active,
                            IF IsNone(out.suggested_actions) THEN <<>>
                            ELSE Get(out.suggested_actions))

\* suggested_actions is left as parsed: the knockout adapters do not default it
\* (a parsed outcome carries a list, the model's default_factory).
ko_suggestions(out) ==
    IF IsNone(out.suggested_actions) THEN <<>> ELSE Get(out.suggested_actions)

player_knocked_out(reply) ==
    IF IsNone(reply)
    THEN LLMFreeOutcome(PLAYER_KO_NARRATIVE, <<>>, None, None, EmptyReward, FALSE,
                        <<"Recover your strength", "Plan your next step">>)
    ELSE LET out == Get(reply)
         IN  LLMFreeOutcome(out.narrative, out.effects, None, None,
                            IF IsNone(out.enemy_defeated_reward) THEN EmptyReward
                            ELSE Get(out.enemy_defeated_reward),
                            FALSE, ko_suggestions(out))

enemy_knocked_out(reply) ==
    IF IsNone(reply)
    THEN LLMFreeOutcome(ENEMY_KO_NARRATIVE, <<>>, Some(0), None, KO_DEFAULT_REWARD, FALSE,
                        <<"Collect your reward", "Search the area">>)
    ELSE LET out == Get(reply)
         IN  LLMFreeOutcome(out.narrative, out.effects, out.enemy_health, None,
                            IF IsNone(out.enemy_defeated_reward) THEN KO_DEFAULT_REWARD
                            ELSE Get(out.enemy_defeated_reward),
                            FALSE, ko_suggestions(out))

\* ------------------------------------------------------------------ combat.py, scaffold
\* vary(base) draws random.randint(low, high) with low = max(1, int(base * 0.7))
\* and high = max(low, int(base * 1.3)); for 0 <= base < 90 the float products
\* truncate to 7 * base \div 10 and 13 * base \div 10.
vary_low(base) == Max(1, (7 * base) \div 10)
vary_high(base) == Max(vary_low(base), (13 * base) \div 10)
vary(base) == vary_low(base)..vary_high(base)

\* The draws estimate_enemy_baseline can make for a character: one per
\* attribute and one for the health.
EnemyPicks(ch) ==
    [health : vary(ch.max_health),
     attributes : [strength : vary(ch.attributes.strength),
                   dexterity : vary(ch.attributes.dexterity),
                   intelligence : vary(ch.attributes.intelligence),
                   charisma : vary(ch.attributes.charisma)]]

\* Called without last_enemy_health: health and max_health are the same draw.
estimate_enemy_baseline(ch, pick) ==
    [health |-> pick.health, max_health |-> pick.health, attributes |-> pick.attributes]

build_combat_state(ch, pick, player_roll, enemy_roll) ==
    LET enemy_state == estimate_enemy_baseline(ch, pick)
    IN  CombatStateModel(
            CombatSide(ch.current_health, Some(ch.max_health), ch.attributes, player_roll),
            CombatSide(enemy_state.health, Some(enemy_state.max_health),
                       enemy_state.attributes, enemy_roll),
            None, None, None)

refresh_rolls(combat_state, player_roll, enemy_roll) ==
    [combat_state EXCEPT !.player.roll = player_roll, !.enemy.roll = enemy_roll]

\* ------------------------------------------------------------------ gameplay_service.py
Turn(turn_number, user_input, narrative, effects, character_health, enemy_health, combat_state, active_combat, reward, suggested_actions) ==
    [turn_number |-> turn_number, user_input |-> user_input, narrative |-> narrative,
     effects |-> effects, character_health |-> character_health,
     enemy_health |-> enemy_health, combat_state |-> combat_state,
     active_combat |-> active_combat, enemy_defeated_reward |-> reward,
     suggested_actions |-> suggested_actions]

FreeActionOut(narrative, effects, character_health, enemy_health, combat_state, active_combat, reward, turn_number, suggested_actions) ==
    [narrative |-> narrative, effects |-> effects, character_health |-> character_health,
     enemy_health |-> enemy_health, combat_state |-> combat_state,
     active_combat |-> active_combat, enemy_defeated_reward |-> reward,
     turn_number |-> turn_number, suggested_actions |-> suggested_actions]

\* Lines 145-165: the snapshot of the most recent turn, when its combat goes on.
last_combat_state(campaign_turns) ==
    IF campaign_turns = <<>>
    THEN None
    ELSE LET last_turn == campaign_turns[Len(campaign_turns)]
         IN  IF IsNone(last_turn.combat_state)
             THEN None
             ELSE LET cs == Get(last_turn.combat_state)
                  IN  IF cs.player.health > 0 /\ cs.enemy.health > 0
                         /\ last_turn.active_combat
                      THEN last_turn.combat_state
                      ELSE None

\* Variant: every action scaffolds a new state.
start_always_scaffold(campaign_turns, ch, pick, build_rolls, rolls) ==
    refresh_rolls(build_combat_state(ch, pick, build_rolls[1], build_rolls[2]),
                  rolls[1], rolls[2])

\* Variant: a continued combat keeps the rolls of its snapshot.
start_keeps_stored_rolls(campaign_turns, ch, pick, build_rolls, rolls) ==
    IF IsNone(last_combat_state(campaign_turns))
    THEN refresh_rolls(build_combat_state(ch, pick, build_rolls[1], build_rolls[2]),
                       rolls[1], rolls[2])
    ELSE Get(last_combat_state(campaign_turns))

\* Lines 167-177: continue or scaffold, then refresh the rolls.  build_rolls are
\* the two rolls build_combat_state draws, rolls the two refresh_rolls draws.
start_combat_state(campaign_turns, ch, pick, build_rolls, rolls) ==
    LET carried == last_combat_state(campaign_turns)
        combat_state == IF ~IsNone(carried) THEN Get(carried)
                        ELSE build_combat_state(ch, pick, build_rolls[1], build_rolls[2])
    IN  refresh_rolls(combat_state, rolls[1], rolls[2])

\* Lines 192-197.
fresh_totals(cs) ==
    IF IsNone(cs)
    THEN <<0, 0>>
    ELSE LET c == Get(cs)
         IN  <<IF IsNone(c.player_total) THEN c.player.roll ELSE Get(c.player_total),
               IF IsNone(c.enemy_total) THEN c.enemy.roll ELSE Get(c.enemy_total)>>

\* Variant: an effect that resolves to no target is recorded all the same.
apply_effect_records_noop(acc, effect_type, combat_state, ch, p_total, e_total) ==
    LET resolved == resolve_effect(effect_type, combat_state.player, combat_state.enemy,
                                   p_total, e_total)
    IN  IF resolved.target = "self"
        THEN [acc EXCEPT
                !.player_hp = Max(0, Min(ch.max_health,
                                  IF resolved.type = HEAL
                                  THEN acc.player_hp + resolved.value
                                  ELSE acc.player_hp - resolved.value)),
                !.computed = Append(acc.computed, resolved)]
        ELSE IF resolved.target = "enemy"
        THEN [acc EXCEPT
                !.enemy_hp = Max(0, acc.enemy_hp - resolved.value),
                !.computed = Append(acc.computed, resolved)]
        ELSE [acc EXCEPT !.computed = Append(acc.computed, resolved)]

\* Lines 207-235, one pass of the loop.  acc holds player_hp, enemy_hp and
\* computed_effects.  (A heal on the enemy is a branch resolve_effect never
\* selects; with max_health None Python's min would raise there.)
apply_effect(acc, effect_type, combat_state, ch, p_total, e_total) ==
    LET resolved == resolve_effect(effect_type, combat_state.player, combat_state.enemy,
                                   p_total, e_total)
    IN  IF resolved.target = "none" \/ resolved.value <= 0
        THEN acc
        ELSE IF resolved.target = "self"
        THEN [acc EXCEPT
                !.player_hp = Max(0, Min(ch.max_health,
                                  IF resolved.type = HEAL
                                  THEN acc.player_hp + resolved.value
                                  ELSE acc.player_hp - resolved.value)),
                !.computed = Append(acc.computed, resolved)]
        ELSE IF resolved.target = "enemy"
        THEN [acc EXCEPT
                !.enemy_hp = IF resolved.type = HEAL
                             THEN IF IsNone(combat_state.enemy.max_health)
                                  THEN acc.enemy_hp + resolved.value
                                  ELSE Min(Get(combat_state.enemy.max_health),
                                           acc.enemy_hp + resolved.value)
                             ELSE Max(0, acc.enemy_hp - resolved.value),
                !.computed = Append(acc.computed, resolved)]
        ELSE [acc EXCEPT !.computed = Append(acc.computed, resolved)]

RECURSIVE apply_effects(_, _, _, _, _, _)
apply_effects(effects, acc, combat_state, ch, p_total, e_total) ==
    IF effects = <<>>
    THEN acc
    ELSE apply_effects(Tail(effects),
                       apply_effect(acc, Head(effects), combat_state, ch, p_total, e_total),
                       combat_state, ch, p_total, e_total)

\* Lines 250-257: clamp one side of the state that will be stored.
clamp_side(side) ==
    IF IsNone(side.max_health)
    THEN side
    ELSE [side EXCEPT !.health = Max(0, Min(Get(side.max_health), side.health))]

\* Lines 245-257: write the computed healths into the oracle's state and clamp.
sync_and_clamp(cs_out, player_hp, enemy_hp) ==
    IF IsNone(cs_out)
    THEN cs_out
    ELSE LET c == Get(cs_out)
         IN  Some([c EXCEPT
                     !.player = clamp_side([c.player EXCEPT !.health = player_hp]),
                     !.enemy = clamp_side([c.enemy EXCEPT !.health = enemy_hp])])

\* What process_free_action did for one request (the value of `last`).
Request(op, action, oracle_calls, sent, reply, outcome, ko, acc, totals, result) ==
    [op |-> op, action |-> action, oracle_calls |-> oracle_calls, sent |-> sent,
     reply |-> reply, outcome |-> outcome, ko |-> ko,
     player_hp |-> acc.player_hp, enemy_hp |-> acc.enemy_hp,
     p_total |-> totals[1], e_total |-> totals[2], result |-> result]

NoAcc == [player_hp |-> 0, enemy_hp |-> 0, computed |-> <<>>]

Served(ch, ts, request) == [character |-> ch, turns |-> ts, request |-> request]

\* Lines 97-124.
player_cheat_action(campaign_turns, ch, action) ==
    LET st == cheat_set_player_health_to_one(campaign_turns, ch)
        enemy_health ==
            IF st.turns = <<>>
            THEN 0
            ELSE LET lt == st.turns[Len(st.turns)]
                 IN  IF ~IsNone(lt.combat_state)
                     THEN Get(lt.combat_state).enemy.health
                     ELSE lt.enemy_health
        result == FreeActionOut("Cheat activated: player health set to 1.", <<>>, 1,
                                enemy_health, None, FALSE, EmptyReward,
                                Len(st.turns), <<>>)
    IN  Served(st.character, st.turns,
               Request("player_cheat", action, 0, None, None, None, "none", NoAcc,
                       <<0, 0>>, Some(result)))

\* Lines 126-140.
enemy_cheat_action(campaign_turns, ch, action) ==
    LET ts == cheat_set_enemy_health_to_one(campaign_turns)
        result == FreeActionOut("Cheat activated: enemy health set to 1.", <<>>,
                                ch.current_health, 1, None, FALSE, EmptyReward,
                                Len(ts), <<>>)
    IN  Served(ch, ts,
               Request("enemy_cheat", action, 0, None, None, None, "none", NoAcc,
                       <<0, 0>>, Some(result)))

\* Lines 199-257: the effects resolved and applied, before the knockout check.
resolve_turn(combat_state, ch, llm_outcome) ==
    LET totals == fresh_totals(llm_outcome.combat_state)
        acc == apply_effects(llm_outcome.effects,
                             [player_hp |-> ch.current_health,
                              enemy_hp |-> combat_state.enemy.health,
                              computed |-> <<>>],
                             combat_state, ch, totals[1], totals[2])
    IN  [totals |-> totals, acc |-> acc,
         cs_out |-> sync_and_clamp(llm_outcome.combat_state, acc.player_hp, acc.enemy_hp)]

\* Variant: the character's health is not checked.
knockout_enemy_only(player_hp, cs_out) ==
    IF ~IsNone(cs_out) /\ Get(cs_out).enemy.health <= 0 THEN "enemy" ELSE "none"

\* Lines 259-267: which knockout path runs.
knockout(player_hp, cs_out) ==
    IF player_hp <= 0 THEN "player"
    ELSE IF ~IsNone(cs_out) /\ Get(cs_out).enemy.health <= 0 THEN "enemy"
    ELSE "none"

\* Variant: the turn is numbered with the length of campaign.turns.
save_turn_numbered_from_length(campaign_turns, ch1, action, inp, combat_state, first, r, ko, llm_outcome) ==
    LET cs_out == IF ko = "none" THEN r.cs_out ELSE llm_outcome.combat_state
        reward == llm_outcome.enemy_defeated_reward
        active_combat == ~IsNone(cs_out) /\ ch1.current_health > 0
                         /\ Get(cs_out).enemy.health > 0
        turn == Turn(Len(campaign_turns), action, llm_outcome.narrative,
                     r.acc.computed, ch1.current_health,
                     IF IsNone(cs_out) THEN 0 ELSE Get(cs_out).enemy.health,
                     cs_out, active_combat, reward, llm_outcome.suggested_actions)
    IN  Served(ch1, Append(campaign_turns, turn),
               Request("action", action, IF ko = "none" THEN 1 ELSE 2,
                       Some(combat_state), inp.reply, Some(first), ko, r.acc, r.totals,
                       Some(FreeActionOut(llm_outcome.narrative, r.acc.computed,
                                          ch1.current_health,
                                          IF IsNone(cs_out) THEN 0
                                          ELSE Get(cs_out).enemy.health,
                                          cs_out, active_combat, reward,
                                          Len(campaign_turns),
                                          llm_outcome.suggested_actions))))

\* Variant: the previous turn, whose snapshot was the working state of a
\* continued combat, is saved with the state as refreshed and synced.
save_turn_saves_previous(campaign_turns, ch1, action, inp, combat_state, first, r, ko, llm_outcome) ==
    LET cs_out == IF ko = "none" THEN r.cs_out ELSE llm_outcome.combat_state
        reward == llm_outcome.enemy_defeated_reward
        active_combat == ~IsNone(cs_out) /\ ch1.current_health > 0
                         /\ Get(cs_out).enemy.health > 0
        turn == Turn(Len(campaign_turns) + 1, action, llm_outcome.narrative,
                     r.acc.computed, ch1.current_health,
                     IF IsNone(cs_out) THEN 0 ELSE Get(cs_out).enemy.health,
                     cs_out, active_combat, reward, llm_outcome.suggested_actions)
        working == [combat_state EXCEPT !.player.health = r.acc.player_hp,
                                        !.enemy.health = r.acc.enemy_hp]
        previous == IF IsNone(last_combat_state(campaign_turns))
                    THEN campaign_turns
                    ELSE [campaign_turns EXCEPT
                             ![Len(campaign_turns)].combat_state = Some(working)]
    IN  Served(ch1, Append(previous, turn),
               Request("action", action, IF ko = "none" THEN 1 ELSE 2,
                       Some(combat_state), inp.reply, Some(first), ko, r.acc, r.totals,
                       Some(FreeActionOut(llm_outcome.narrative, r.acc.computed,
                                          ch1.current_health,
                                          IF IsNone(cs_out) THEN 0
                                          ELSE Get(cs_out).enemy.health,
                                          cs_out, active_combat, reward,
                                          Len(campaign_turns) + 1,
                                          llm_outcome.suggested_actions))))

\* Lines 269-313: the reward and active_combat derived, the turn appended,
\* the response built.  ch1 is the character as saved, llm_outcome the outcome
\* in force after the knockout check.
save_turn(campaign_turns, ch1, action, inp, combat_state, first, r, ko, llm_outcome) ==
    LET cs_out == IF ko = "none" THEN r.cs_out ELSE llm_outcome.combat_state
        reward == llm_outcome.enemy_defeated_reward
        active_combat == ~IsNone(cs_out) /\ ch1.current_health > 0
                         /\ Get(cs_out).enemy.health > 0
        turn == Turn(Len(campaign_turns) + 1, action, llm_outcome.narrative,
                     r.acc.computed, ch1.current_health,
                     IF IsNone(cs_out) THEN 0 ELSE Get(cs_out).enemy.health,
                     cs_out, active_combat, reward, llm_outcome.suggested_actions)
    IN  Served(ch1, Append(campaign_turns, turn),
               Request("action", action, IF ko = "none" THEN 1 ELSE 2,
                       Some(combat_state), inp.reply, Some(first), ko, r.acc, r.totals,
                       Some(FreeActionOut(llm_outcome.narrative, r.acc.computed,
                                          ch1.current_health,
                                          IF IsNone(cs_out) THEN 0
                                          ELSE Get(cs_out).enemy.health,
                                          cs_out, active_combat, reward,
                                          Len(campaign_turns) + 1,
                                          llm_outcome.suggested_actions))))

\* Variant: the knocked-out character is left at the health it fell to.
apply_knockout_no_reset(campaign_turns, ch, action, inp, combat_state, first, r, ko) ==
    save_turn(campaign_turns,
              [ch EXCEPT !.current_health = r.acc.player_hp],
              action, inp, combat_state, first, r, ko,
              IF ko = "player" THEN player_knocked_out(inp.ko_reply)
              ELSE IF ko = "enemy" THEN enemy_knocked_out(inp.ko_reply)
              ELSE first)

\* Lines 259-267: the knocked-out character is restored to max_health and the
\* knockout narrative replaces the outcome of the turn.
apply_knockout(campaign_turns, ch, action, inp, combat_state, first, r, ko) ==
    save_turn(campaign_turns,
              [ch EXCEPT !.current_health =
                  IF ko = "player" THEN ch.max_health ELSE r.acc.player_hp],
              action, inp, combat_state, first, r, ko,
              IF ko = "player" THEN player_knocked_out(inp.ko_reply)
              ELSE IF ko = "enemy" THEN enemy_knocked_out(inp.ko_reply)
              ELSE first)

\* Lines 189-267: r is the turn as resolved and committed.
check_knockouts(campaign_turns, ch, action, inp, combat_state, first, r) ==
    apply_knockout(campaign_turns, ch, action, inp, combat_state, first, r,
                   knockout(r.acc.player_hp, r.cs_out))

\* Lines 182-257: combat_state is the state sent, first the oracle's outcome.
resolve_and_save(campaign_turns, ch, action, inp, combat_state, first) ==
    check_knockouts(campaign_turns, ch, action, inp, combat_state, first,
                    resolve_turn(combat_state, ch, first))

\* Lines 142-313.  inp: pick and build_rolls (scaffold draws), rolls (refresh
\* draws), reply (the oracle's answer to the turn), ko_reply (its answer to the
\* knockout prompt, read only when a knockout path runs).
free_action(campaign_turns, ch, action, inp) ==
    resolve_and_save(campaign_turns, ch, action, inp,
                     start_combat_state(campaign_turns, ch, inp.pick,
                                        inp.build_rolls, inp.rolls),
                     generate_free_narrative(inp.reply))

\* Variant: the action is compared with the sentinels as it was typed.
process_free_action_exact_match(campaign_turns, ch, action, inp) ==
    IF action = REDUCEMYLIFE
    THEN player_cheat_action(campaign_turns, ch, action)
    ELSE IF action = REDUCEENEMYLIFE
    THEN enemy_cheat_action(campaign_turns, ch, action)
    ELSE free_action(campaign_turns, ch, action, inp)

process_free_action(campaign_turns, ch, action, inp) ==
    IF normalize_action(action) = REDUCEMYLIFE
    THEN player_cheat_action(campaign_turns, ch, action)
    ELSE IF normalize_action(action) = REDUCEENEMYLIFE
    THEN enemy_cheat_action(campaign_turns, ch, action)
    ELSE free_action(campaign_turns, ch, action, inp)

\* ------------------------------------------------------------------ standard flow
Level(enemy_health, enemy_max_health, is_completed, level_turns) == [enemy_health |-> enemy_health, enemy_max_health |-> enemy_max_health, is_completed |-> is_completed, turns |-> level_turns]

\* llm_service.py lines 20-24: the deltas default to 0.
LLMActionOutcome(narrative, enemy_health_change, character_health_change) == [narrative |-> narrative, enemy_health_change |-> enemy_health_change, character_health_change |-> character_health_change]

Abs(n) == IF n < 0 THEN -n ELSE n

\* Lines 61-79: the turn of a standard action, the other fields at their defaults.
level_turn(lv, ch, action, llm_outcome) ==
    Turn(Len(lv.turns) + 1, action, llm_outcome.narrative,
         <<Effect(IF llm_outcome.enemy_health_change < 0 THEN DAMAGE ELSE HEAL,
                  "enemy", Abs(llm_outcome.enemy_health_change)),
           Effect(IF llm_outcome.character_health_change < 0 THEN DAMAGE ELSE HEAL,
                  "self", Abs(llm_outcome.character_health_change))>>,
         ch.current_health, lv.enemy_health, None, FALSE, EmptyReward, <<>>)

\* Lines 46-58: the deltas of the oracle applied to the level and the character.
apply_health_changes(lv, ch, llm_outcome) ==
    LET enemy_health == Max(0, lv.enemy_health + llm_outcome.enemy_health_change)
    IN  [level |-> [lv EXCEPT !.enemy_health = enemy_health,
                              !.is_completed = (enemy_health <= 0) \/ lv.is_completed],
         character |-> [ch EXCEPT !.current_health =
                           Max(0, ch.current_health + llm_outcome.character_health_change)]]

\* process_player_action from the oracle's outcome on (lines 46-92): the
\* health changes, the turn linked to the level, the result.  As written the
\* call of the oracle (lines 34-44) hands over campaign.intro_narrative, a field
\* Campaign does not declare and a keyword generate_narrative_with_schema does
\* not take, so these lines run once that argument is gone; llm_outcome is
\* what the adapter returns.
process_player_action(lv, ch, action, llm_outcome) ==
    LET changed == apply_health_changes(lv, ch, llm_outcome)
        turn == level_turn(changed.level, changed.character, action, llm_outcome)
    IN  [level |-> [changed.level EXCEPT !.turns = Append(@, turn)],
         character |-> changed.character,
         result |-> [narrative |-> llm_outcome.narrative,
                     enemy_health |-> changed.level.enemy_health,
                     character_health |-> changed.character.current_health,
                     enemy_defeated |-> changed.level.is_completed,
                     turn_number |-> turn.turn_number]]

\* ------------------------------------------------------------------ routes.py
\* create_campaign: max_health = 20 * character.level, and level stays 1.
BaseHealth == 20

NewCharacter(attributes) ==
    [current_health |-> BaseHealth, max_health |-> BaseHealth, attributes |-> attributes]

CAMPAIGN_DESCRIPTION == <<"d", "e", "s", "c">>

\* Lines 278-299 of create_campaign: the intro is stored as turn 1.
intro_turn(ch) ==
    Turn(1, CAMPAIGN_DESCRIPTION, "intro narrative", <<>>, ch.current_health, 0,
         None, FALSE, EmptyReward, <<>>)

\* ------------------------------------------------------------------ bounds and inputs
MaxActions == 2    \* at most this many non-cheat actions are served
MaxEffects == 2    \* the oracle returns at most this many effect intents
MaxTotal == 2      \* resolver harness: totals range over 0..MaxTotal

RollMin == 1
RollMax == 20
Rolls == RollMin..RollMax

CharacterAttributes ==
    {[strength |-> 3, dexterity |-> 1, intelligence |-> 1, charisma |-> 1]}

\* The jitter draws the model makes: every draw at the low end of its
\* interval, or every draw at the high end.
SampledPicks(ch) ==
    {p \in EnemyPicks(ch) :
        \/ /\ p.health = vary_low(ch.max_health)
           /\ \A a \in AttributeNames : p.attributes[a] = vary_low(ch.attributes[a])
        \/ /\ p.health = vary_high(ch.max_health)
           /\ \A a \in AttributeNames : p.attributes[a] = vary_high(ch.attributes[a])}

\* The pairs of rolls the model draws: the ends of random.randint(1, 20).
RollDraws == {<<RollMin, RollMax>>, <<RollMax, RollMin>>}

ATTACK == <<"a", "t", "t", "a", "c", "k">>
PADDED_PLAYER_CHEAT ==
    <<" ", "R", "e", "d", "u", "c", "e", "M", "y", "L", "i", "f", "e", "\n">>
UPPER_ENEMY_CHEAT ==
    <<"R", "E", "D", "U", "C", "E", "E", "N", "E", "M", "Y", "L", "I", "F", "E", " ">>

ActionTexts == {ATTACK, PADDED_PLAYER_CHEAT, UPPER_ENEMY_CHEAT}

RECURSIVE SeqsUpTo(_, _)
SeqsUpTo(S, n) ==
    IF n = 0 THEN {<<>>}
    ELSE LET shorter == SeqsUpTo(S, n - 1)
         IN  shorter \cup {Append(q, x) : q \in {t \in shorter : Len(t) = n - 1}, x \in S}

EffectLists == SeqsUpTo(EffectType, MaxEffects)

LOOT_REWARD == EnemyDefeatedReward(Some(5), <<"Sword">>)

\* What the oracle sends besides the combat numbers: reward, suggestions and
\* the flat enemy_health.
PlainExtras == [reward |-> None, suggested_actions |-> None, enemy_health |-> None]
LootExtras == [reward |-> Some(LOOT_REWARD), suggested_actions |-> Some(<<"Look around">>),
               enemy_health |-> Some(7)]

Reply(effects, x, cs, active) ==
    Some(LLMFreeOutcome("oracle narrative", effects, x.enemy_health, cs, x.reward, active,
                        x.suggested_actions))

\* The totals the oracle reports: none (the code falls back on the echoed
\* rolls), or numbers of its own: the player ahead, the enemy ahead, a tie.
PLAYER_AHEAD == <<Some(9), Some(4)>>
ENEMY_AHEAD == <<Some(4), Some(9)>>
EchoTotals == {<<None, None>>, PLAYER_AHEAD, ENEMY_AHEAD, <<Some(4), Some(4)>>}

\* The state the oracle was sent, echoed as it was, with the totals t.
FaithfulEcho(sent, t) ==
    CombatStateModel(sent.player, sent.enemy, Some("strength"), t[1], t[2])

\* The max_health values an unfaithful oracle echoes for a side: none, a
\* negative one, zero, a positive one below the health of the side.
EchoMax == {None, Some(-1), Some(0), Some(5)}

\* Echoes that differ from the state sent in one respect: the max_health of a
\* side, both healths, or the attribute chosen.
DeviatedEchoes(sent) ==
    LET e == FaithfulEcho(sent, PLAYER_AHEAD)
    IN  {[e EXCEPT !.player.max_health = m] : m \in EchoMax}
        \cup {[e EXCEPT !.enemy.max_health = m] : m \in EchoMax}
        \cup {[e EXCEPT !.player.health = 0, !.enemy.health = 99]}
        \cup {[e EXCEPT !.chosen_attribute = c] : c \in {None, Some("luck")}}

\* Enough damage intents to bring either side from full health to 0.
BARRAGE == [i \in 1..10 |-> DAMAGE]

\* The answers of the oracle to a turn:
\*   a failure;
\*   no combat, bare or with a stale state, intents and a reward;
\*   combat with the state echoed as sent, for every list of intents and totals;
\*   the same with a reward, and with a barrage of intents;
\*   combat with a deviating echo;
\*   combat without a state.
OracleReplies(sent) ==
    {None}
    \cup {Reply(<<>>, PlainExtras, None, active) : active \in {None, Some(FALSE)}}
    \cup {Reply(<<DAMAGE, HEAL>>, LootExtras, Some(FaithfulEcho(sent, PLAYER_AHEAD)), active) :
            active \in {None, Some(FALSE)}}
    \cup {Reply(effects, PlainExtras, Some(FaithfulEcho(sent, t)), Some(TRUE)) :
            effects \in EffectLists, t \in EchoTotals}
    \cup {Reply(<<DAMAGE>>, LootExtras, Some(FaithfulEcho(sent, PLAYER_AHEAD)), Some(TRUE))}
    \cup {Reply(BARRAGE, PlainExtras, Some(FaithfulEcho(sent, t)), Some(TRUE)) :
            t \in {PLAYER_AHEAD, ENEMY_AHEAD}}
    \cup {Reply(<<DAMAGE>>, PlainExtras, Some(e), Some(TRUE)) : e \in DeviatedEchoes(sent)}
    \cup {Reply(<<DAMAGE, HEAL>>, PlainExtras, None, Some(TRUE))}

UnitAttributes == [strength |-> 1, dexterity |-> 1, intelligence |-> 1, charisma |-> 1]

\* The answers of the oracle to a knockout prompt.
\* A parsed one may carry a combat state and active_combat = true, which the
\* adapters overwrite.
STALE_STATE ==
    CombatStateModel(CombatSide(3, Some(BaseHealth), UnitAttributes, RollMin),
                     CombatSide(4, None, UnitAttributes, RollMax),
                     Some("strength"), None, None)

KoReplies ==
    {None} \cup
    {Some(LLMFreeOutcome("knockout narrative", <<>>, None, Some(STALE_STATE), reward,
                         Some(TRUE), Some(<<"Rest">>))) :
        reward \in {None, Some(EmptyReward), Some(LOOT_REWARD)}}

\* ------------------------------------------------------------------ the campaign
NoResults == [damage |-> None, heal |-> None]

NoRequest == Request("none", <<>>, 0, None, None, None, "none", NoAcc, <<0, 0>>, None)

\* What the lookups of campaign_action find: Campaign.get and its is_active
\* flag, Character.get and the comparison of its user_id with the caller's id.
Context(campaign_exists, is_active, character_exists, owned) == [campaign_exists |-> campaign_exists, is_active |-> is_active, character_exists |-> character_exists, owned |-> owned]

\* The caller's own campaign right after create_campaign (is_active defaults
\* to True, models.py line 173).
OwnActiveCampaign == Context(TRUE, TRUE, TRUE, TRUE)

\* The HTTPException campaign_action raises before any processing: nothing is
\* read from the oracle and nothing is written.
Rejected(ch, campaign_turns, action, status) == Served(ch, campaign_turns, Request(status, action, 0, None, None, None, "none", NoAcc, <<0, 0>>, None))

\* The two requests that can be in flight on one campaign.
Callers == {1, 2}

\* A call of process_free_action: where it stands (pc), campaign.turns and the
\* character as it loaded them, the rolls it drew, the oracle's reply.
Call(pc, campaign_turns, ch, rolls, reply) == [pc |-> pc, turns |-> campaign_turns, character |-> ch, rolls |-> rolls, reply |-> reply]

NoCalls == [p \in Callers |-> Call("idle", <<>>, NewCharacter(UnitAttributes), <<RollMin, RollMin>>, None)]

\* The campaign as create_campaign inserts it (line 276): the character's health
\* is reset and campaign.turns is empty.
Init ==
    /\ character \in {NewCharacter(a) : a \in CharacterAttributes}
    /\ turns = <<>>
    /\ last = NoRequest
    /\ context = OwnActiveCampaign
    /\ level = None
    /\ calls = NoCalls
    /\ collection = <<>>
    /\ rin = None
    /\ rout = NoResults

\* create_campaign goes on to store the intro as turn 1 (it does not when
\* insert_turn raises, and the campaign stays without turns).
CreateCampaignIntro ==
    /\ turns = <<>>
    /\ last.op = "none"
    /\ turns' = <<intro_turn(character)>>
    /\ last' = [last EXCEPT !.op = "created"]
    /\ UNCHANGED <<character, context, level, calls, collection, rin, rout>>

\* campaign_action with a variant that serves a campaign that was ended.
campaign_action_ignores_is_active(ctx, campaign_turns, ch, action, inp) ==
    IF ~ctx.campaign_exists
    THEN Rejected(ch, campaign_turns, action, "http_400")
    ELSE IF ~ctx.character_exists \/ ~ctx.owned
    THEN Rejected(ch, campaign_turns, action, "http_403")
    ELSE process_free_action(campaign_turns, ch, action, inp)

\* routes.py campaign_action (lines 320-341) for a free-mode campaign: the
\* campaign is looked up and must be active (400), the character is looked up
\* and must belong to the caller (403), and only then the action is processed.
\* process_free_action raises no ValueError, so the except clause stays unused.
campaign_action(ctx, campaign_turns, ch, action, inp) ==
    IF ~ctx.campaign_exists \/ ~ctx.is_active
    THEN Rejected(ch, campaign_turns, action, "http_400")
    ELSE IF ~ctx.character_exists \/ ~ctx.owned
    THEN Rejected(ch, campaign_turns, action, "http_403")
    ELSE process_free_action(campaign_turns, ch, action, inp)

Serve(action, inp) ==
    \E served \in {campaign_action(context, turns, character, action, inp)} :
        /\ character' = served.character
        /\ turns' = served.turns
        /\ last' = served.request
        /\ UNCHANGED <<context, level, calls, collection, rin, rout>>

\* The environment of a request that does not reach the oracle: the draws are
\* available and unread, and a call of the oracle would fail.
QuietInputs(ch) ==
    {[pick |-> CHOOSE pick \in SampledPicks(ch) : TRUE,
      build_rolls |-> <<RollMax, RollMax>>, rolls |-> <<RollMin, RollMax>>,
      reply |-> None, ko_reply |-> None]}

ReduceMyLife ==
    \E action \in {a \in ActionTexts : normalize_action(a) = REDUCEMYLIFE} :
    \E inp \in QuietInputs(character) :
        Serve(action, inp)

ReduceEnemyLife ==
    \E action \in {a \in ActionTexts : normalize_action(a) = REDUCEENEMYLIFE} :
    \E inp \in QuietInputs(character) :
        Serve(action, inp)

\* The rolls build_combat_state draws; refresh_rolls overwrites them.
BuildRolls == <<RollMax, RollMax>>

\* The knockout path a reply leads to, which decides whether the oracle is
\* asked a second time.
knockout_of(sent, ch, reply) ==
    LET r == resolve_turn(sent, ch, generate_free_narrative(reply))
    IN  knockout(r.acc.player_hp, r.cs_out)

\* The turns process_free_action appended (all but the intro).
ActionTurns(ts) == SelectSeq(ts, LAMBDA t : t.user_input # CAMPAIGN_DESCRIPTION)

FreeAction ==
    /\ Len(ActionTurns(turns)) < MaxActions
    /\ \E action \in {a \in ActionTexts :
                         normalize_action(a) \notin {REDUCEMYLIFE, REDUCEENEMYLIFE}} :
       \E pick \in SampledPicks(character), rolls \in RollDraws :
       \E sent \in {start_combat_state(turns, character, pick, BuildRolls, rolls)} :
       \E reply \in OracleReplies(sent) :
       \E ko \in {knockout_of(sent, character, reply)} :
       \E ko_reply \in IF ko = "none" THEN {None} ELSE KoReplies :
          Serve(action, [pick |-> pick, build_rolls |-> BuildRolls, rolls |-> rolls,
                         reply |-> reply, ko_reply |-> ko_reply])

Next == CreateCampaignIntro \/ ReduceMyLife \/ ReduceEnemyLife \/ FreeAction

Spec == Init /\ [][Next]_vars

\* ------------------------------------------------------------------ the route
\* Requests arrive for campaigns in every context: the caller's own, another
\* user's, one that was ended, one that was never stored.
Contexts == {Context(c, a, e, o) : c \in BOOLEAN, a \in BOOLEAN, e \in BOOLEAN, o \in BOOLEAN}

Admitted(ctx) == ctx.campaign_exists /\ ctx.is_active /\ ctx.character_exists /\ ctx.owned

InitRoute ==
    /\ character \in {NewCharacter(a) : a \in CharacterAttributes}
    /\ turns = <<>>
    /\ last = NoRequest
    /\ context \in Contexts
    /\ level = None
    /\ calls = NoCalls
    /\ collection = <<>>
    /\ rin = None
    /\ rout = NoResults

\* The environment of a request at the route: the dice fall one way or the
\* other, and the oracle fails or answers with one damage effect and a
\* faithful echo.
RouteReplies(sent) == {None, Reply(<<DAMAGE>>, PlainExtras, Some(FaithfulEcho(sent, PLAYER_AHEAD)), Some(TRUE))}

RoutePick(ch) == CHOOSE pick \in SampledPicks(ch) : TRUE

RouteInputs(campaign_turns, ch) ==
    UNION {{[pick |-> RoutePick(ch), build_rolls |-> BuildRolls, rolls |-> rolls,
             reply |-> reply, ko_reply |-> None] :
               reply \in RouteReplies(start_combat_state(campaign_turns, ch, RoutePick(ch), BuildRolls, rolls))} :
           rolls \in {<<RollMin, RollMax>>, <<RollMax, RollMin>>}}

\* POST /api/campanha/{campaign_id}/acao. Requests the route rejects are not counted
\* against the number of turns played.
RouteAction ==
    \E action \in ActionTexts :
        /\ \/ ~Admitted(context)
           \/ Len(ActionTurns(turns)) < MaxActions
        /\ \E inp \in RouteInputs(turns, character) : Serve(action, inp)

\* routes.py end_campaign (lines 344-364): 404 without the campaign, 403
\* without the caller's character, else the campaign is closed.
EndCampaign ==
    /\ context.campaign_exists
    /\ context.character_exists
    /\ context.owned
    /\ context' = [context EXCEPT !.is_active = FALSE]
    /\ UNCHANGED <<character, turns, last, level, calls, collection, rin, rout>>

NextRoute == RouteAction \/ EndCampaign

SpecRoute == InitRoute /\ [][NextRoute]_vars

\* ------------------------------------------------------------------ the level
\* generate_enemy_for_level: the health of its two fallbacks.
EnemyInitHealths == {30, 40}

\* The deltas the oracle returns: a blow that kills, a wound, nothing, healing.
HealthChanges == {-45, -3, 0, 5}

ActionOutcomes == {LLMActionOutcome("oracle narrative", e, c) : e \in HealthChanges, c \in HealthChanges}

\* create_campaign in standard mode (lines 219-262): the first level with the
\* enemy at full health and the intro as its turn 1.
NewLevel(ch, enemy_health) ==
    Level(enemy_health, enemy_health, FALSE,
          <<Turn(1, CAMPAIGN_DESCRIPTION, "intro narrative", <<>>, ch.current_health,
                 enemy_health, None, FALSE, EmptyReward, <<>>)>>)

InitLevel ==
    /\ character \in {NewCharacter(a) : a \in CharacterAttributes}
    /\ turns = <<>>
    /\ last = NoRequest
    /\ context = OwnActiveCampaign
    /\ level \in {NewLevel(NewCharacter(a), h) : a \in CharacterAttributes, h \in EnemyInitHealths}
    /\ calls = NoCalls
    /\ collection = <<>>
    /\ rin = None
    /\ rout = NoResults

PlayerAction ==
    /\ Len(level.turns) <= MaxActions
    /\ \E llm_outcome \in ActionOutcomes :
       \E done \in {process_player_action(level, character, ATTACK, llm_outcome)} :
          /\ level' = done.level
          /\ character' = done.character
          /\ last' = Request("standard", ATTACK, 1, None, None, None, "none", NoAcc,
                             <<0, 0>>, Some(done.result))
          /\ UNCHANGED <<turns, context, calls, collection, rin, rout>>

NextLevel == PlayerAction

SpecLevel == InitLevel /\ [][NextLevel]_vars

\* ------------------------------------------------------------------ concurrent calls
\* Two requests on one free campaign, each a task of the event loop: a task
\* runs until it awaits, so a call proceeds in the segments between its awaits
\* and the segments of the two calls interleave.  Each call works on the
\* Campaign and Character documents it loaded; save() writes a document back
\* as the call holds it.

\* Variant: the turn is pushed onto campaign.turns as stored.
campaign_save_pushes(db_turns, campaign_turns, turn) ==
    Append(db_turns, turn)

\* Lines 298-299: the turn is appended to the list the call loaded and the
\* campaign is saved with that list.
campaign_save(db_turns, campaign_turns, turn) ==
    Append(campaign_turns, turn)

\* The state a call sends to the oracle.
call_state(c) == start_combat_state(c.turns, c.character, RoutePick(c.character), BuildRolls, c.rolls)

\* What the call computes from what it loaded, drew and was answered.
call_served(c) == free_action(c.turns, c.character, ATTACK, [pick |-> RoutePick(c.character), build_rolls |-> BuildRolls, rolls |-> c.rolls, reply |-> c.reply, ko_reply |-> None])

\* The turn the call inserts.
call_turn(c) == call_served(c).turns[Len(c.turns) + 1]

\* The answers of the oracle to a racing call: a failure, one damage intent
\* with either side ahead, a barrage with the enemy ahead.
RaceReplies(sent) ==
    {None,
     Reply(<<DAMAGE>>, PlainExtras, Some(FaithfulEcho(sent, PLAYER_AHEAD)), Some(TRUE)),
     Reply(<<DAMAGE>>, PlainExtras, Some(FaithfulEcho(sent, ENEMY_AHEAD)), Some(TRUE)),
     Reply(BARRAGE, PlainExtras, Some(FaithfulEcho(sent, ENEMY_AHEAD)), Some(TRUE))}

InitRace ==
    /\ character \in {NewCharacter(a) : a \in CharacterAttributes}
    /\ turns = <<intro_turn(character)>>
    /\ last = NoRequest
    /\ context = OwnActiveCampaign
    /\ level = None
    /\ calls = NoCalls
    /\ collection = <<intro_turn(character)>>
    /\ rin = None
    /\ rout = NoResults

\* The calls begun so far: a turn inserted after the intro, or a call on its
\* way to insert one.
CallsBegun == Len(collection) - 1 + Cardinality({p \in Callers : calls[p].pc \in {"oracle", "saved"}})

\* routes.py lines 324-328 and gameplay_service.py lines 142-187: the
\* documents loaded, the state built, the rolls drawn, the oracle called.
\* (The three loads are taken as one read: the turns stored do not change
\* while calls race, and what matters is the list and the character held.)
StartCall(p) ==
    /\ calls[p].pc \in {"idle", "done"}
    /\ CallsBegun < MaxActions
    /\ \E rolls \in RollDraws :
          calls' = [calls EXCEPT ![p] = Call("oracle", turns, character, rolls, None)]
    /\ UNCHANGED <<character, turns, last, context, level, collection, rin, rout>>

\* Lines 189-239: the oracle answers, the effects are applied, the character
\* is saved with the health computed.
OracleAnswers(p) ==
    /\ calls[p].pc = "oracle"
    /\ \E reply \in RaceReplies(call_state(calls[p])) :
       \E c \in {[calls[p] EXCEPT !.pc = "saved", !.reply = reply]} :
          /\ calls' = [calls EXCEPT ![p] = c]
          /\ character' = [c.character EXCEPT
                               !.current_health = call_served(c).request.player_hp]
    /\ UNCHANGED <<turns, last, context, level, collection, rin, rout>>

\* Lines 241-295: the knocked-out character is saved again at max_health,
\* and the turn is inserted.
InsertTurn(p) ==
    /\ calls[p].pc = "saved"
    /\ calls' = [calls EXCEPT ![p].pc = "inserted"]
    /\ character' = IF call_served(calls[p]).request.ko = "player"
                    THEN call_served(calls[p]).character
                    ELSE character
    /\ collection' = Append(collection, call_turn(calls[p]))
    /\ UNCHANGED <<turns, last, context, level, rin, rout>>

\* Lines 298-313: the campaign is saved and the result returned.
SaveCampaign(p) ==
    /\ calls[p].pc = "inserted"
    /\ calls' = [calls EXCEPT ![p].pc = "done"]
    /\ turns' = campaign_save(turns, calls[p].turns, call_turn(calls[p]))
    /\ last' = call_served(calls[p]).request
    /\ UNCHANGED <<character, context, level, collection, rin, rout>>

NextRace == \E p \in Callers : StartCall(p) \/ OracleAnswers(p) \/ InsertTurn(p) \/ SaveCampaign(p)

SpecRace == InitRace /\ [][NextRace]_vars

\* ------------------------------------------------------------------ resolver harness
\* resolve_effect is a pure function: the harness draws its arguments and
\* applies it to a damage intent and to a heal intent on the same arguments.
HarnessSides ==
    {CombatSide(h, m, UnitAttributes, RollMin) :
        h \in {0, 1, 20, 27}, m \in {None, Some(-1), Some(0), Some(20), Some(33)}}

ResolveInputs ==
    [attacker : HarnessSides, defender : HarnessSides,
     player_total : 0..MaxTotal, enemy_total : 0..MaxTotal]

InitResolve ==
    /\ character \in {NewCharacter(a) : a \in CharacterAttributes}
    /\ turns = <<>>
    /\ last = NoRequest
    /\ context = OwnActiveCampaign
    /\ level = None
    /\ calls = NoCalls
    /\ collection = <<>>
    /\ rin \in {Some(i) : i \in ResolveInputs}
    /\ rout = NoResults

ResolveDamage ==
    /\ ~IsNone(rin)
    /\ IsNone(rout.damage)
    /\ rout' = [rout EXCEPT !.damage =
                   Some(resolve_effect(DAMAGE, Get(rin).attacker, Get(rin).defender,
                                       Get(rin).player_total, Get(rin).enemy_total))]
    /\ UNCHANGED <<character, turns, last, context, level, calls, collection, rin>>

ResolveHeal ==
    /\ ~IsNone(rin)
    /\ IsNone(rout.heal)
    /\ rout' = [rout EXCEPT !.heal =
                   Some(resolve_effect(HEAL, Get(rin).attacker, Get(rin).defender,
                                       Get(rin).player_total, Get(rin).enemy_total))]
    /\ UNCHANGED <<character, turns, last, context, level, calls, collection, rin>>

NextResolve == ResolveDamage \/ ResolveHeal

SpecResolve == InitResolve /\ [][NextResolve]_vars

\* ------------------------------------------------------------------ claims, resolver
\* C9: with player_total = enemy_total, resolve_effect returns target "none"
\* and value 0, for a damage intent and for a heal intent alike.
C9_TieIsNoOp ==
    (~IsNone(rin) /\ Get(rin).player_total = Get(rin).enemy_total) =>
        /\ ~IsNone(rout.damage) =>
              Get(rout.damage).target = "none" /\ Get(rout.damage).value = 0
        /\ ~IsNone(rout.heal) =>
              Get(rout.heal).target = "none" /\ Get(rout.heal).value = 0

\* A tie between sides whose matchup would otherwise be worth more than 1,
\* resolved for both intents.
C9_Witness ==
    /\ ~IsNone(rin)
    /\ Get(rin).player_total = Get(rin).enemy_total
    /\ effect_value(Get(rin).attacker, Get(rin).defender) > 1
    /\ ~IsNone(rout.damage)
    /\ ~IsNone(rout.heal)

\* C10: with enemy_total > player_total a heal intent resolves to damage on
\* self, with the value a damage intent gets on the same sides and totals.
C10_HealBackfires ==
    (/\ ~IsNone(rin)
     /\ Get(rin).enemy_total > Get(rin).player_total
     /\ ~IsNone(rout.heal)) =>
        /\ Get(rout.heal).type = DAMAGE
        /\ Get(rout.heal).target = "self"
        /\ ~IsNone(rout.damage) => Get(rout.heal).value = Get(rout.damage).value

\* The enemy ahead, both intents resolved, and a value above the minimum of 1.
C10_Witness ==
    /\ ~IsNone(rin)
    /\ Get(rin).enemy_total > Get(rin).player_total
    /\ ~IsNone(rout.heal)
    /\ ~IsNone(rout.damage)
    /\ Get(rout.damage).value > 1

\* C11: with unequal totals, a damage intent hits the enemy when the player is
\* ahead and the player when the enemy is ahead; a heal intent heals the
\* player when the player is ahead and never targets the enemy; the value is
\* the computed magnitude, at least 1.
C11_TargetTable ==
    (~IsNone(rin) /\ Get(rin).player_total # Get(rin).enemy_total) =>
        LET player_ahead == Get(rin).player_total > Get(rin).enemy_total
            magnitude == effect_value(Get(rin).attacker, Get(rin).defender)
        IN  /\ ~IsNone(rout.damage) =>
                  /\ Get(rout.damage).type = DAMAGE
                  /\ Get(rout.damage).target = IF player_ahead THEN "enemy" ELSE "self"
                  /\ Get(rout.damage).value = magnitude
                  /\ Get(rout.damage).value >= 1
            /\ ~IsNone(rout.heal) =>
                  /\ Get(rout.heal).target # "enemy"
                  /\ player_ahead =>
                        Get(rout.heal).type = HEAL /\ Get(rout.heal).target = "self"
                  /\ Get(rout.heal).value = magnitude
                  /\ Get(rout.heal).value >= 1

\* The enemy ahead and a damage intent resolved against the player, between
\* sides whose matchup is worth more than 1.
C11_Witness ==
    /\ ~IsNone(rin)
    /\ Get(rin).enemy_total > Get(rin).player_total
    /\ ~IsNone(rout.damage)
    /\ Get(rout.damage).target = "self"
    /\ Get(rout.damage).value > 1
    /\ ~IsNone(rout.heal)

\* round(n / d) for d > 0 as Python rounds: to the nearest integer, a half to
\* the even neighbour.
RoundNearest(n, d) ==
    LET q == n \div d
        r == n % d
    IN  IF 2 * r < d THEN q
        ELSE IF 2 * r > d THEN q + 1
        ELSE IF q % 2 = 0 THEN q ELSE q + 1

\* The health C12 reads from a side: its max_health if set, else its health.
SetMaxOrHealth(side) ==
    IF IsNone(side.max_health) THEN side.health ELSE Get(side.max_health)

\* C12: the value of a non-tie effect is max(1, round(0.15 * (A + D) / 2)),
\* A and D the max_health of the attacker and the defender if set, else their
\* health; rounded to the nearest integer.
C12_RoundedMagnitude ==
    (~IsNone(rin) /\ Get(rin).player_total # Get(rin).enemy_total) =>
        LET rounded == Max(1, RoundNearest(3 * (SetMaxOrHealth(Get(rin).attacker)
                                                + SetMaxOrHealth(Get(rin).defender)), 40))
        IN  /\ ~IsNone(rout.damage) => Get(rout.damage).value = rounded
            /\ ~IsNone(rout.heal) => Get(rout.heal).value = rounded

\* ------------------------------------------------------------------ claims, campaign
LastTurn == turns[Len(turns)]

SideWithinBounds(side) ==
    IF IsNone(side.max_health)
    THEN side.health >= 0
    ELSE 0 <= side.health /\ side.health <= Get(side.max_health)

\* C1: after any sequence of free-mode actions the character's current_health
\* lies in [0, max_health], and in every stored combat snapshot each side's
\* health lies in [0, max_health] when that side's max_health is set and is
\* >= 0 otherwise.
C1_HealthWithinBounds ==
    /\ 0 <= character.current_health
    /\ character.current_health <= character.max_health
    /\ \A i \in DOMAIN turns :
          ~IsNone(turns[i].combat_state) =>
              /\ SideWithinBounds(Get(turns[i].combat_state).player)
              /\ SideWithinBounds(Get(turns[i].combat_state).enemy)

\* C2: when the resolved effects bring the character's health to 0, the action
\* ends with current_health = max_health, and the turn stored and returned has
\* character_health = max_health, active_combat = false and no combat_state.
C2_KnockoutResets ==
    (last.op = "action" /\ last.player_hp <= 0) =>
        /\ character.current_health = character.max_health
        /\ LastTurn.character_health = character.max_health
        /\ ~LastTurn.active_combat
        /\ IsNone(LastTurn.combat_state)
        /\ Get(last.result).character_health = character.max_health
        /\ ~Get(last.result).active_combat
        /\ IsNone(Get(last.result).combat_state)

\* The oracle reported combat with a state, the effects took the character
\* from a positive health to 0, and the knockout oracle answered with a state.
C2_Witness ==
    /\ last.op = "action"
    /\ last.player_hp = 0
    /\ Get(last.sent).player.health > 0
    /\ ~IsNone(Get(last.outcome).combat_state)
    /\ Get(last.outcome).active_combat
    /\ LastTurn.effects # <<>>
    /\ LastTurn.narrative = "knockout narrative"

NonEmptyReward(reward) == ~IsNone(reward.gainedExperience) \/ reward.loot # <<>>

\* C3: whenever the enemy knockout path runs, the reward stored and returned
\* has gainedExperience set or a non-empty loot list.
C3_DefeatRewardNonEmpty ==
    (last.op = "action" /\ last.ko = "enemy") =>
        /\ NonEmptyReward(LastTurn.enemy_defeated_reward)
        /\ NonEmptyReward(Get(last.result).enemy_defeated_reward)

\* C4: when the oracle reports active_combat false or leaves it absent, the
\* adapter's outcome has no combat_state and no enemy_health, and the turn
\* stored has combat_state = None, enemy_health = 0 and active_combat = false.
C4_NonCombatHygiene ==
    (/\ last.op = "action"
     /\ ~IsNone(last.reply)
     /\ Get(last.reply).active_combat \in {None, Some(FALSE)}) =>
        /\ IsNone(Get(last.outcome).combat_state)
        /\ IsNone(Get(last.outcome).enemy_health)
        /\ IsNone(LastTurn.combat_state)
        /\ LastTurn.enemy_health = 0
        /\ ~LastTurn.active_combat

\* The oracle reported no combat and yet echoed a state, an enemy health and
\* effect intents.
C4_Witness ==
    /\ last.op = "action"
    /\ ~IsNone(last.reply)
    /\ Get(last.reply).active_combat = Some(FALSE)
    /\ ~IsNone(Get(last.reply).combat_state)
    /\ ~IsNone(Get(last.reply).enemy_health)
    /\ Get(last.reply).effects # <<>>
    /\ IsNone(LastTurn.combat_state)

\* The snapshot of a turn goes on: active combat and both healths above 0.
GoesOn(turn) ==
    /\ turn.active_combat
    /\ ~IsNone(turn.combat_state)
    /\ Get(turn.combat_state).player.health > 0
    /\ Get(turn.combat_state).enemy.health > 0

\* The state differs from the snapshot in the rolls at most.
SameButRolls(state, snapshot) ==
    [state EXCEPT !.player.roll = snapshot.player.roll,
                  !.enemy.roll = snapshot.enemy.roll] = snapshot

\* The state is a scaffold for the character: the player's side is the
\* character's, the enemy's health and attributes lie within the jitter of the
\* character's max_health and attributes.
ScaffoldFor(state, ch) ==
    /\ state.player.health = ch.current_health
    /\ state.player.max_health = Some(ch.max_health)
    /\ state.player.attributes = ch.attributes
    /\ state.enemy.health \in vary(ch.max_health)
    /\ state.enemy.max_health = Some(state.enemy.health)
    /\ \A a \in AttributeNames : state.enemy.attributes[a] \in vary(ch.attributes[a])
    /\ IsNone(state.player_total) /\ IsNone(state.enemy_total)

\* C5: a non-cheat action after a turn whose combat goes on starts from that
\* turn's snapshot, the enemy's health as stored; after a turn with
\* active_combat = false it starts from a state scaffolded from the character.
C5_ContinueOrScaffold ==
    [][(last'.op = "action" /\ Len(turns') = Len(turns) + 1 /\ turns # <<>>) =>
          /\ GoesOn(LastTurn) =>
                /\ Get(last'.sent).enemy.health = Get(LastTurn.combat_state).enemy.health
                /\ SameButRolls(Get(last'.sent), Get(LastTurn.combat_state))
          /\ ~LastTurn.active_combat => ScaffoldFor(Get(last'.sent), character)]_vars

\* An action continued a combat whose stored enemy health no scaffold draws.
C5_Witness ==
    /\ last.op = "action"
    /\ Len(turns) >= 2
    /\ GoesOn(turns[Len(turns) - 1])
    /\ Get(last.sent).enemy.health = Get(turns[Len(turns) - 1].combat_state).enemy.health
    /\ Get(last.sent).enemy.health \notin vary(character.max_health)

\* C6: the player cheat on a campaign without turns, or whose most recent turn
\* has active_combat = false, changes no turn and no field of the character.
C6_PlayerCheatNoOp ==
    [][(last'.op = "player_cheat" /\ (turns = <<>> \/ ~LastTurn.active_combat)) =>
          turns' = turns /\ character' = character]_vars

\* The player cheat was served after an action whose turn has no active combat.
C6_Witness ==
    /\ last.op = "player_cheat"
    /\ Len(turns) >= 2
    /\ ~LastTurn.active_combat
    /\ character.current_health = character.max_health

\* C7: the player cheat during active combat sets the character's
\* current_health, the last turn's character_health and its snapshot's player
\* health to 1 and changes nothing else; served again it changes nothing.
C7_PlayerCheatFrame ==
    [][/\ (last'.op = "player_cheat" /\ turns # <<>> /\ LastTurn.active_combat) =>
            /\ character' = [character EXCEPT !.current_health = 1]
            /\ Len(turns') = Len(turns)
            /\ \A i \in 1..(Len(turns) - 1) : turns'[i] = turns[i]
            /\ turns'[Len(turns)] =
                  [LastTurn EXCEPT
                      !.character_health = 1,
                      !.combat_state =
                          Some([Get(LastTurn.combat_state) EXCEPT !.player.health = 1])]
       /\ (last'.op = "player_cheat" /\ last.op = "player_cheat") =>
            turns' = turns /\ character' = character]_vars

\* The player cheat was served during a combat in which the enemy's health
\* and the character's earlier health were not 1.
C7_Witness ==
    /\ last.op = "player_cheat"
    /\ Len(turns) >= 2
    /\ LastTurn.active_combat
    /\ character.current_health = 1
    /\ LastTurn.character_health = 1
    /\ Get(LastTurn.combat_state).player.health = 1
    /\ Get(LastTurn.combat_state).enemy.health > 1
    /\ LastTurn.enemy_health > 1

IsCheatText(action) == normalize_action(action) \in {REDUCEMYLIFE, REDUCEENEMYLIFE}

\* C8: a request whose action, trimmed and lower-cased, is a cheat sentinel
\* never adds a turn and never calls the oracle; it changes no turn but the
\* most recent one, and that one only when it has active combat.
C8_CheatsCreateNoTurn ==
    [][IsCheatText(last'.action) =>
          /\ Len(turns') = Len(turns)
          /\ last'.oracle_calls = 0
          /\ last'.op \in {"player_cheat", "enemy_cheat"}
          /\ \A i \in 1..(Len(turns) - 1) : turns'[i] = turns[i]
          /\ turns' # turns => LastTurn.active_combat]_vars

\* The enemy cheat, sent in upper case with a trailing blank, patched the
\* most recent turn of a campaign that holds an earlier turn.
C8_Witness ==
    /\ last.op = "enemy_cheat"
    /\ last.action = UPPER_ENEMY_CHEAT
    /\ Len(turns) >= 2
    /\ LastTurn.active_combat
    /\ LastTurn.enemy_health = 1
    /\ LastTurn.character_health > 1

\* C13: when the call of the oracle fails or its answer does not parse, the
\* action still stores exactly one turn and returns it: the fallback
\* narrative, no effects, no combat_state, active_combat = false, the empty
\* reward, no suggestions; the character's health is unchanged.
C13_OracleFailureFallback ==
    [][(last'.op = "action" /\ IsNone(last'.reply)) =>
          LET stored == Turn(Len(turns) + 1, last'.action, FALLBACK_NARRATIVE, <<>>,
                             character.current_health, 0, None, FALSE, EmptyReward, <<>>)
              returned == Get(last'.result)
          IN  /\ turns' = Append(turns, stored)
              /\ character' = character
              /\ last'.oracle_calls = 1
              /\ returned.narrative = FALLBACK_NARRATIVE
              /\ returned.effects = <<>>
              /\ IsNone(returned.combat_state)
              /\ ~returned.active_combat
              /\ returned.enemy_defeated_reward = EmptyReward
              /\ returned.suggested_actions = <<>>
              /\ returned.character_health = character.current_health
              /\ returned.turn_number = Len(turns) + 1]_vars

\* The oracle failed on an action taken in the middle of a combat, the
\* character below full health.
C13_Witness ==
    /\ last.op = "action"
    /\ IsNone(last.reply)
    /\ Len(turns) >= 2
    /\ turns[Len(turns) - 1].active_combat
    /\ LastTurn.narrative = FALLBACK_NARRATIVE
    /\ character.current_health < character.max_health

\* C14: the totals handed to resolve_effect are, for each side, the roll
\* refreshed in this turn plus the side's value of the chosen attribute;
\* totals supplied by the oracle do not decide the turn's effects.
C14_TotalsFromFreshRolls ==
    (/\ last.op = "action"
     /\ ~IsNone(Get(last.outcome).combat_state)
     /\ ~IsNone(Get(Get(last.outcome).combat_state).chosen_attribute)
     /\ Get(Get(Get(last.outcome).combat_state).chosen_attribute) \in AttributeNames) =>
        LET sent == Get(last.sent)
            attribute == Get(Get(Get(last.outcome).combat_state).chosen_attribute)
        IN  /\ last.p_total = sent.player.roll + sent.player.attributes[attribute]
            /\ last.e_total = sent.enemy.roll + sent.enemy.attributes[attribute]

\* A reply with the health and max_health the oracle echoed blanked out.
EchoedHealthBlanked(reply) ==
    LET out == Get(reply)
        cs == Get(out.combat_state)
    IN  [out EXCEPT !.combat_state =
            Some([cs EXCEPT !.player.health = 0, !.player.max_health = None,
                            !.enemy.health = 0, !.enemy.max_health = None])]

\* The input of an action answered by reply, the knockout oracle failing.
AnsweredBy(pick, rolls, reply) ==
    [pick |-> pick, build_rolls |-> BuildRolls, rolls |-> rolls, reply |-> reply,
     ko_reply |-> None]

\* The healths an action stores: the character's and the turn's enemy_health.
StoredHealths(served) ==
    <<served.character.current_health, served.turns[Len(served.turns)].enemy_health>>

\* C15: an action answered with a combat_state stores the character health
\* and the enemy health that any other run from the same stored state would
\* store, given the same rolls and a reply that agrees with the one received
\* in everything (effect types, totals, attribute) but the health and
\* max_health echoed in combat_state.
C15_OracleNumbersInert ==
    [][(/\ last'.op = "action"
        /\ ~IsNone(last'.reply)
        /\ ~IsNone(Get(last'.reply).combat_state)) =>
          LET sent == Get(last'.sent)
              pick == [health |-> sent.enemy.health, attributes |-> sent.enemy.attributes]
              rolls == <<sent.player.roll, sent.enemy.roll>>
              agreeing == {r \in OracleReplies(sent) :
                              /\ ~IsNone(r)
                              /\ ~IsNone(Get(r).combat_state)
                              /\ EchoedHealthBlanked(r) = EchoedHealthBlanked(last'.reply)}
          IN  \A other \in agreeing :
                  StoredHealths(process_free_action(turns, character, last'.action,
                                                    AnsweredBy(pick, rolls, other)))
                  = <<character'.current_health, turns'[Len(turns')].enemy_health>>]_vars

\* A pair of rolls for every value a roll can take.
AllRollPairs == {<<r, RollMax + RollMin - r>> : r \in Rolls}

\* C16: every non-cheat action sends the oracle a state whose rolls are the
\* two drawn in this turn, each in 1..20, on continuation and on scaffold
\* alike: whatever rolls the stored snapshot holds, every value of 1..20 drawn
\* next is the roll sent.
C16_RollsRefreshed ==
    /\ last.op = "action" =>
          /\ Get(last.sent).player.roll \in RollMin..RollMax
          /\ Get(last.sent).enemy.roll \in RollMin..RollMax
    /\ \A pick \in SampledPicks(character) :
          \A rolls \in AllRollPairs :
              LET sent == start_combat_state(turns, character, pick, BuildRolls, rolls)
              IN  sent.player.roll = rolls[1] /\ sent.enemy.roll = rolls[2]

\* An action continued a combat with rolls that differ from the rolls stored
\* in the snapshot it continued.
C16_Witness ==
    /\ last.op = "action"
    /\ Len(turns) >= 2
    /\ GoesOn(turns[Len(turns) - 1])
    /\ SameButRolls(Get(last.sent), Get(turns[Len(turns) - 1].combat_state))
    /\ Get(last.sent).player.roll # Get(turns[Len(turns) - 1].combat_state).player.roll
    /\ Get(last.sent).enemy.roll # Get(turns[Len(turns) - 1].combat_state).enemy.roll

\* C17: campaign.turns only grows by appends: a non-cheat action appends
\* exactly one turn, numbered with the previous length plus 1; the i-th turn
\* has turn_number i; no step removes or reorders a turn.
C17_AppendOnly ==
    [][/\ Len(turns') >= Len(turns)
       /\ \A i \in DOMAIN turns :
             /\ turns'[i].turn_number = turns[i].turn_number
             /\ turns'[i].user_input = turns[i].user_input
       /\ \A i \in DOMAIN turns' : turns'[i].turn_number = i
       /\ last'.op = "action" =>
             /\ Len(turns') = Len(turns) + 1
             /\ turns'[Len(turns')].turn_number = Len(turns) + 1
             /\ turns'[Len(turns')].user_input = last'.action]_vars

\* The second action after the intro stored the third turn.
C17_Witness ==
    /\ last.op = "action"
    /\ Len(turns) = 3
    /\ turns[1].user_input = CAMPAIGN_DESCRIPTION
    /\ LastTurn.turn_number = 3

\* The turn but for the health fields a cheat patches.
HealthFieldsBlanked(turn) ==
    [turn EXCEPT !.character_health = 0,
                 !.enemy_health = 0,
                 !.combat_state =
                     IF IsNone(@) THEN @
                     ELSE Some([Get(@) EXCEPT !.player.health = 0, !.enemy.health = 0])]

\* C18: a non-cheat action changes no field of a turn already stored, the
\* turn whose snapshot it continues included; a cheat changes no turn but the
\* most recent one, and of that one the health fields only.
C18_StoredTurnsImmutable ==
    [][/\ last'.op = "action" => \A i \in DOMAIN turns : turns'[i] = turns[i]
       /\ last'.op \in {"player_cheat", "enemy_cheat"} =>
             /\ Len(turns') = Len(turns)
             /\ \A i \in DOMAIN turns :
                   IF i < Len(turns)
                   THEN turns'[i] = turns[i]
                   ELSE HealthFieldsBlanked(turns'[i]) = HealthFieldsBlanked(turns[i])]_vars

\* An action continued the combat of the previous turn and moved the enemy's
\* health away from the health stored in that turn.
C18_Witness ==
    /\ last.op = "action"
    /\ Len(turns) >= 2
    /\ GoesOn(turns[Len(turns) - 1])
    /\ SameButRolls(Get(last.sent), Get(turns[Len(turns) - 1].combat_state))
    /\ LastTurn.effects # <<>>
    /\ last.enemy_hp # turns[Len(turns) - 1].enemy_health

\* C20: a turn stored by an action on which the enemy knockout path did not
\* run carries the empty reward, whatever reward the oracle returned.
C20_NoDefeatNoReward ==
    (last.op = "action" /\ last.ko # "enemy") =>
        /\ LastTurn.enemy_defeated_reward = EmptyReward
        /\ Get(last.result).enemy_defeated_reward = EmptyReward

\* The turn a step appended.
NewTurn == turns'[Len(turns')]

\* C23: whatever intents and combat state the oracle returns, a non-cheat
\* action stores one turn and returns a result; every effect recorded has a
\* target and a value of at least 1; when the oracle returned no combat state
\* or the totals tie, no effect is recorded and neither health moves.
C23_ResolutionNeverAborts ==
    [][last'.op = "action" =>
          /\ Len(turns') = Len(turns) + 1
          /\ ~IsNone(last'.result)
          /\ Get(last'.result).effects = NewTurn.effects
          /\ \A i \in DOMAIN NewTurn.effects :
                /\ NewTurn.effects[i].target \in {"self", "enemy"}
                /\ NewTurn.effects[i].value >= 1
          /\ (IsNone(Get(last'.outcome).combat_state) \/ last'.p_total = last'.e_total) =>
                /\ NewTurn.effects = <<>>
                /\ last'.player_hp = character.current_health
                /\ last'.enemy_hp = Get(last'.sent).enemy.health
                /\ character' = character]_vars

\* The oracle reported combat and two intents without a combat state, in the
\* middle of a campaign, and the turn was stored without effects.
C23_Witness ==
    /\ last.op = "action"
    /\ ~IsNone(last.reply)
    /\ Get(last.reply).effects = <<DAMAGE, HEAL>>
    /\ Get(last.reply).active_combat = Some(TRUE)
    /\ IsNone(Get(last.reply).combat_state)
    /\ Len(turns) >= 3
    /\ LastTurn.effects = <<>>
    /\ LastTurn.turn_number = Len(turns)

\* C24: a non-cheat action that follows a turn whose snapshot holds an enemy
\* with health > 0 starts with that enemy health; one that follows a turn
\* stored through a knockout starts with the enemy health that turn resolved.
C24_LiveEnemyKept ==
    [][(last'.op = "action" /\ Len(turns') = Len(turns) + 1 /\ turns # <<>>) =>
          /\ (~IsNone(LastTurn.combat_state)
              /\ Get(LastTurn.combat_state).enemy.health > 0) =>
                Get(last'.sent).enemy.health = Get(LastTurn.combat_state).enemy.health
          /\ (last.op = "action" /\ last.ko # "none") =>
                Get(last'.sent).enemy.health = last.enemy_hp]_vars

\* C25: the turn an action stores has active_combat exactly when it has a
\* combat_state, and then both healths of the snapshot are > 0; when the
\* health of either side reached 0 the turn has no combat_state and
\* active_combat = false.
C25_ActiveIffSnapshotAlive ==
    last.op = "action" =>
        /\ LastTurn.active_combat <=> ~IsNone(LastTurn.combat_state)
        /\ ~IsNone(LastTurn.combat_state) =>
              /\ Get(LastTurn.combat_state).player.health > 0
              /\ Get(LastTurn.combat_state).enemy.health > 0
        /\ (last.player_hp <= 0 \/ last.enemy_hp <= 0) =>
              IsNone(LastTurn.combat_state) /\ ~LastTurn.active_combat

\* C26: once an action or a cheat has returned, the character's stored
\* current_health is at least 1 and at most max_health.
C26_NeverLeftAtZero ==
    last.op \in {"action", "player_cheat", "enemy_cheat"} =>
        /\ character.current_health >= 1
        /\ character.current_health <= character.max_health

\* The effects of an action took the character from health 1, where the
\* player cheat had left it, to 0, and the action ended at full health.
C26_Witness ==
    /\ last.op = "action"
    /\ last.ko = "player"
    /\ last.player_hp = 0
    /\ Len(turns) >= 3
    /\ turns[Len(turns) - 1].character_health = 1
    /\ character.current_health = character.max_health

C28_FlatFieldsAgree ==
    /\ \A i \in DOMAIN turns :
          ~IsNone(turns[i].combat_state) =>
              /\ turns[i].character_health = Get(turns[i].combat_state).player.health
              /\ turns[i].enemy_health = Get(turns[i].combat_state).enemy.health
    /\ (last.op = "action" /\ ~IsNone(LastTurn.combat_state)) =>
          LastTurn.character_health = character.current_health

\* C29: the result of a cheat reports the character's stored current_health
\* and the enemy_health of the most recent turn, 0 without a turn.
C29_CheatResultReportsStored ==
    last.op \in {"player_cheat", "enemy_cheat"} =>
        /\ Get(last.result).character_health = character.current_health
        /\ Get(last.result).enemy_health = IF turns = <<>> THEN 0 ELSE LastTurn.enemy_health

\* C30: a cheat applied to a turn with active combat leaves it with active
\* combat and both snapshot healths > 0, and the non-cheat action that follows
\* continues from that snapshot: player health 1 after the player cheat, enemy
\* health 1 after the enemy cheat.
C30_CheatKeepsCombat ==
    [][/\ (last'.op \in {"player_cheat", "enemy_cheat"}
           /\ turns # <<>> /\ LastTurn.active_combat) =>
             GoesOn(NewTurn)
       /\ (last'.op = "action" /\ turns # <<>> /\ LastTurn.active_combat
           /\ last.op \in {"player_cheat", "enemy_cheat"}) =>
             /\ SameButRolls(Get(last'.sent), Get(LastTurn.combat_state))
             /\ last.op = "player_cheat" => Get(last'.sent).player.health = 1
             /\ last.op = "enemy_cheat" => Get(last'.sent).enemy.health = 1]_vars

\* ------------------------------------------------------------------ claims, route
\* C19: a request for a campaign that is missing or not active, or whose
\* character is missing or belongs to another user, is rejected before any
\* processing: no call of the oracle, the character and the turns as they
\* were, no result. No other request is rejected: in the caller's own active
\* campaign every request is served and returns a result.
C19_ContextChecksOnly ==
    [][ /\ (last' # last /\ ~Admitted(context)) =>
              /\ last'.op \in {"http_400", "http_403"}
              /\ last'.oracle_calls = 0
              /\ IsNone(last'.result)
              /\ character' = character
              /\ turns' = turns
              /\ context' = context
        /\ (last' # last /\ Admitted(context)) =>
              /\ last'.op \in {"action", "player_cheat", "enemy_cheat"}
              /\ ~IsNone(last'.result)
      ]_vars

\* A request was rejected on a campaign that was ended after turns were played.
C19_Witness ==
    /\ last.op = "http_400"
    /\ context.campaign_exists /\ ~context.is_active
    /\ context.character_exists /\ context.owned
    /\ Len(turns) >= 1

\* ------------------------------------------------------------------ claims, concurrent calls
\* C21: two calls on one campaign that loaded the same campaign.turns and
\* have both returned have inserted two turns with the same turn_number, and
\* campaign.turns holds one turn more than they loaded, the turn of one of
\* them: the append of the other is lost; the character's health is the one
\* a single call left.
C21_RacingCallsLoseATurn ==
    \A p \in Callers : \A q \in Callers \ {p} :
        (/\ calls[p].pc = "done"
         /\ calls[q].pc = "done"
         /\ calls[p].turns = calls[q].turns) =>
            /\ call_turn(calls[p]).turn_number = call_turn(calls[q]).turn_number
            /\ \E i \in DOMAIN collection : \E j \in DOMAIN collection \ {i} :
                  collection[i] = call_turn(calls[p]) /\ collection[j] = call_turn(calls[q])
            /\ Len(turns) = Len(calls[p].turns) + 1
            /\ turns[Len(turns)] \in {call_turn(calls[p]), call_turn(calls[q])}
            /\ Len(collection) > Len(turns)
            /\ character.current_health \in
                  {call_served(calls[p]).character.current_health,
                   call_served(calls[q]).character.current_health}

\* Both calls loaded the campaign with the intro alone and the character at
\* the same health, each took a hit from the enemy, and both returned: two
\* turns numbered 2 are stored, campaign.turns holds one, and the character
\* has lost the health of one hit.
C21_Witness ==
    /\ calls[1].pc = "done" /\ calls[2].pc = "done"
    /\ calls[1].turns = calls[2].turns
    /\ calls[1].character = calls[2].character
    /\ Len(collection) = 3 /\ Len(turns) = 2
    /\ collection[2].turn_number = 2 /\ collection[3].turn_number = 2
    /\ collection[2].effects # <<>> /\ collection[2].effects[1].target = "self"
    /\ collection[3].effects # <<>> /\ collection[3].effects[1].target = "self"
    /\ character.current_health
          = calls[1].character.current_health - collection[2].effects[1].value

====
